---- MODULE Spec2Model ----
(***************************************************************************)
(* Model of the e-book record service of src/server.js: an Express app     *)
(* whose handlers read and write a MongoDB collection through Mongoose     *)
(* (the Record Store) and upload / destroy cover images on Cloudinary      *)
(* (the Image Store).  Every handler is an async function: each `await`    *)
(* of an external call is one atomic step of the request, taken by the    *)
(* request slot the handler runs in.  Every external call either is served *)
(* or rejects (the store cannot be reached).  Spec receives one request at *)
(* a time.                                                                 *)
(***************************************************************************)
EXTENDS Integers, Sequences, FiniteSets, TLC

\* ------------------------------------------------------------- bounds
MaxIds == 1          \* records ever created
MaxRefs == 3         \* images ever uploaded

\* The request slots: the handlers that can be in flight at the same time.
Procs == {1, 2}

\* ------------------------------------------------------------- values
\* `undefined` of JavaScript: a form field that the request did not carry.
Undefined == "<undefined>"
\* The text values a request can carry in `title` and in `bookLink`.
Texts == {Undefined, "", "a", "b"}
\* Mutant of Truthy: only a missing text is falsy, the empty string is not.
TruthyDefined(v) == v # Undefined

\* JavaScript truthiness of a form text: undefined and "" are falsy.
Truthy(v) == v # Undefined /\ v # ""
\* `x || y` of JavaScript.
Or(x, y) == IF Truthy(x) THEN x ELSE y

\* A request id that Mongoose cannot cast to an ObjectId.
MalformedId == 0
\* `public_id = null`: the record has no image in the Image Store.
NullRef == 0
\* The fallback image URL.
Placeholder == "https://placehold.co/300x200/cccccc/333333?text=No+Image"
\* uploadResult.secure_url of the image stored under public_id `ref`.
SecureUrl(ref) == "https://res.cloudinary.com/ebook_covers/" \o ToString(ref)

\* The ids a request can name: malformed, or a well formed ObjectId.
ReqIds == {MalformedId} \cup (1..MaxIds)

\* A document of the Ebook model.
Doc(id, t, l, url, pid) ==
    [_id |-> id, title |-> t, bookLink |-> l, imageUrl |-> url, public_id |-> pid]
\* `null`, as returned by findById / findByIdAndDelete that matched nothing,
\* and the value of a handler local that is not bound yet.
Null == [null |-> TRUE]
NoReq == [op |-> "none"]
NoRes == [status |-> 0]

VARIABLES
    db,           \* Record Store: the ebooks collection, _id -> document
    cloud,        \* Image Store: the public_ids of the live images
    nextId,       \* the next ObjectId a stored document gets
    nextRef,      \* the next public_id Cloudinary generates
    pc,           \* per request slot: the await the handler is suspended at
    req,          \* per request slot: method, id, form fields, file
    ebook,        \* per request slot: the handler's document (ebook / newEbook)
    orig,         \* per request slot: the document as findById returned it
    image,        \* per request slot: the locals imageUrl / public_id of Create
    uploadResult, \* per request slot: what cloudinary.uploader.upload resolved to
    res,          \* per request slot: the response sent
    calls,        \* per request slot: the external calls issued, in order
    fault,        \* per request slot: the external call that rejected because
                  \* its store could not serve it, or "none"
    fresh,        \* _id -> the record Create returned, until an Update or
                  \* Delete of that _id is received
    deleted,      \* _id -> the public_id of the record a confirmed (200)
                  \* Delete removed
    failed        \* some request was answered 500 so far

stores == <<db, cloud, nextId, nextRef>>
vars == <<db, cloud, nextId, nextRef, pc, req, ebook, orig, image, uploadResult,
          res, calls, fault, fresh, deleted, failed>>

Init ==
    /\ db = <<>>
    /\ cloud = {}
    /\ nextId = 1
    /\ nextRef = 1
    /\ pc = [p \in Procs |-> "idle"]
    /\ req = [p \in Procs |-> NoReq]
    /\ ebook = [p \in Procs |-> Null]
    /\ orig = [p \in Procs |-> Null]
    /\ image = [p \in Procs |-> Null]
    /\ uploadResult = [p \in Procs |-> Null]
    /\ res = [p \in Procs |-> NoRes]
    /\ calls = [p \in Procs |-> <<>>]
    /\ fault = [p \in Procs |-> "none"]
    /\ fresh = <<>>
    /\ deleted = <<>>
    /\ failed = FALSE

\* ------------------------------------------------------------- helpers
\* Mongoose casts the id of findById / findByIdAndDelete to an ObjectId and
\* rejects the query with a CastError when it cannot.
IsObjectId(id) == id # MalformedId

\* Mutant of FindById: the lookup reports no document.
FindByIdNothing(id) == Null

\* The document Ebook.findById(id) / Ebook.findByIdAndDelete(id) resolves to.
FindById(id) == IF id \in DOMAIN db THEN db[id] ELSE Null

\* Mutant of Put: the collection drops the public_id of the document it stores.
PutWithoutPublicId(d) ==
    [i \in DOMAIN db \cup {d._id} |->
        IF i = d._id THEN [d EXCEPT !.public_id = NullRef] ELSE db[i]]

\* The collection with document d inserted or replaced.
Put(d) == [i \in DOMAIN db \cup {d._id} |-> IF i = d._id THEN d ELSE db[i]]
\* Mutant of Remove: the document is found but not deleted.
RemoveNothing(id) == db

\* The collection after findByIdAndDelete removed the document of _id id.
Remove(id) == [i \in DOMAIN db \ {id} |-> db[i]]
\* A function with key k bound to v, and without key k.
With(f, k, v) == [i \in DOMAIN f \cup {k} |-> IF i = k THEN v ELSE f[i]]
Without(f, k) == [i \in DOMAIN f \ {k} |-> f[i]]

\* Mutant of Destroyed: the old image is never destroyed.
DestroyedNothing(ref) == cloud

\* The Image Store after cloudinary.uploader.destroy(ref): destroying a
\* public_id that is already gone changes nothing.
Destroyed(ref) == cloud \ {ref}
\* What cloudinary.uploader.upload resolves to for the image stored as ref.
UploadResult(ref) == [secure_url |-> SecureUrl(ref), public_id |-> ref]

\* Mutant of MissingFields: only the title is checked.
MissingTitleOnly(title, bookLink) == ~Truthy(title)

\* `if (!title || !bookLink)` of Create.
MissingFields(title, bookLink) == ~Truthy(title) \/ ~Truthy(bookLink)

\* Mutant of UpdateFields: the image fields are reset to those of a new record.
UpdateFieldsResetImage(doc, title, bookLink) ==
    [doc EXCEPT !.title = Or(title, doc.title), !.bookLink = Or(bookLink, doc.bookLink),
                !.imageUrl = Placeholder, !.public_id = NullRef]

\* Mutant of UpdateFields: the second assignment reads `title` again.
UpdateFieldsTitleTwice(doc, title, bookLink) ==
    [doc EXCEPT !.title = Or(title, doc.title), !.bookLink = Or(title, doc.bookLink)]

\* `ebook.title = title || ebook.title; ebook.bookLink = bookLink || ebook.bookLink`.
UpdateFields(doc, title, bookLink) ==
    [doc EXCEPT !.title = Or(title, doc.title), !.bookLink = Or(bookLink, doc.bookLink)]

\* Mutant of SetImage: the public_id of the new image is not recorded.
SetImageUrlOnly(doc, up) == [doc EXCEPT !.imageUrl = up.secure_url]

\* `ebook.imageUrl = uploadResult.secure_url; ebook.public_id = uploadResult.public_id`.
SetImage(doc, up) == [doc EXCEPT !.imageUrl = up.secure_url, !.public_id = up.public_id]

\* Mutant of NewEbook: the constructor is not given the imageUrl local.
NewEbookNoImageUrl(id, title, bookLink, img) ==
    Doc(id, title, bookLink, Undefined, img.public_id)

\* `new Ebook({title, bookLink, imageUrl, public_id})`.
NewEbook(id, title, bookLink, img) == Doc(id, title, bookLink, img.imageUrl, img.public_id)

\* Mutant of AfterFind: the old image is not destroyed before the upload.
AfterFindUploadFirst(doc, file) == IF ~file THEN "u_save" ELSE "u_upload"

\* The await an Update reaches after findById found doc: `if (req.file)`,
\* `if (ebook.public_id)`.
AfterFind(doc, file) ==
    IF ~file THEN "u_save"
    ELSE IF doc.public_id # NullRef THEN "u_destroy"
    ELSE "u_upload"

\* The schema's `required: true` of title and bookLink, checked by save():
\* a required string must be neither missing nor empty.
Validates(doc) == Truthy(doc.title) /\ Truthy(doc.bookLink)

\* Mutant of Matched: save() inserts the document when the collection no
\* longer holds it.
MatchedOrInserted(doc) == IF doc._id \in DOMAIN db THEN db[doc._id] ELSE doc

\* The stored document that save() of doc updates (it filters by _id), Null
\* when the collection no longer holds one: save() then rejects with
\* DocumentNotFoundError.
Matched(doc) == IF doc._id \in DOMAIN db THEN db[doc._id] ELSE Null

\* Mutant of Saved: a save of a document that another request changed
\* meanwhile writes nothing.
SavedUnlessChanged(cur, was, doc) == IF cur = was THEN doc ELSE cur

\* What save() of a document that was read as `was` and is now `doc` leaves in
\* the collection, whose current document is `cur`: Mongoose writes ($set)
\* only the paths that were modified since the read.
Saved(cur, was, doc) ==
    [f \in DOMAIN cur |-> IF doc[f] # was[f] THEN doc[f] ELSE cur[f]]

\* A slot is free for a new request when no handler runs in it.
Free(p) == pc[p] = "idle"

\* Requests that will still take a fresh ObjectId / a fresh public_id.
PendingIds == Cardinality({q \in Procs : pc[q] \in {"c_upload", "c_save"}})
PendingRefs == Cardinality({q \in Procs : pc[q] \in {"c_upload", "u_destroy", "u_upload"}})
\* The model is finite: a request that would need more than MaxIds ObjectIds
\* or MaxRefs public_ids is not received.
RoomFor(create, file) ==
    /\ create => nextId + PendingIds <= MaxIds
    /\ file => nextRef + PendingRefs <= MaxRefs

\* The catch block of every handler: 500 and the error message.
ServerError == [status |-> 500, body |-> [message |-> "Server error"]]
NotFound(msg) == [status |-> 404, body |-> [message |-> msg]]
DeleteConfirmed == [status |-> 200, body |-> [message |-> "Ebook and its image deleted successfully"]]

\* Mutant of Caught: the catch block destroys the image the request uploaded.
CaughtRollsBack(p) ==
    IF uploadResult[p] = Null THEN cloud ELSE cloud \ {uploadResult[p].public_id}

\* The Image Store after the catch block of Create / Update ran for a save()
\* that rejected: the block logs and answers, and undoes nothing.
Caught(p) == cloud

\* Slot p receives request r, and its handler issues its first external
\* call (first = <<>> when it has none yet).
Receive(p, r, first) ==
    /\ req' = [req EXCEPT ![p] = r]
    /\ calls' = [calls EXCEPT ![p] = first]

\* The handler of slot p sends response r and ends.
Send(p, r) ==
    /\ res' = [res EXCEPT ![p] = r]
    /\ pc' = [pc EXCEPT ![p] = "done"]
    /\ failed' = (failed \/ r.status = 500)

\* Mutant of Reject: the rejection is swallowed and the request is answered 200.
RejectSwallowed(p, call) ==
    /\ Send(p, [status |-> 200, body |-> [message |-> "ok"]])
    /\ fault' = [fault EXCEPT ![p] = call]

\* The external call `call` of slot p rejects: the catch block answers 500.
Reject(p, call) ==
    /\ Send(p, ServerError)
    /\ fault' = [fault EXCEPT ![p] = call]

\* The handler of slot p is suspended at the await named next.
Await(p, next) ==
    /\ res' = [res EXCEPT ![p] = NoRes]
    /\ pc' = [pc EXCEPT ![p] = next]
    /\ UNCHANGED failed

\* ------------------------------------------------------------- GET /api/ebooks
GetEbooks(p) ==
    /\ Free(p)
    /\ Receive(p, [op |-> "list"], <<"find">>)
    /\ \E up \in BOOLEAN :
          IF up
          THEN /\ Send(p, [status |-> 200, body |-> [ebooks |-> {db[i] : i \in DOMAIN db}]])
               /\ UNCHANGED fault
          ELSE Reject(p, "find")
    /\ UNCHANGED <<stores, ebook, orig, image, uploadResult, fresh, deleted>>

\* ------------------------------------------------------------- GET /api/ebooks/:id
GetEbook(p, ids) ==
    /\ Free(p)
    /\ \E id \in ids, up \in BOOLEAN :
          /\ Receive(p, [op |-> "get", id |-> id], <<"findById">>)
          /\ IF ~IsObjectId(id)
             THEN /\ Send(p, ServerError)
                  /\ UNCHANGED <<ebook, fault>>
             ELSE IF ~up
             THEN /\ Reject(p, "findById")
                  /\ UNCHANGED ebook
             ELSE /\ ebook' = [ebook EXCEPT ![p] = FindById(id)]
                  /\ UNCHANGED fault
                  /\ IF FindById(id) = Null
                     THEN Send(p, NotFound("Ebook not found"))
                     ELSE Send(p, [status |-> 200, body |-> FindById(id)])
    /\ UNCHANGED <<stores, orig, image, uploadResult, fresh, deleted>>

\* ------------------------------------------------------------- POST /api/ebooks
\* The request is received: validation, then the first await.
PostEbook(p, texts) ==
    /\ Free(p)
    /\ \E title \in texts, bookLink \in texts, file \in BOOLEAN :
          /\ RoomFor(~MissingFields(title, bookLink), file /\ ~MissingFields(title, bookLink))
          /\ Receive(p, [op |-> "post", title |-> title, bookLink |-> bookLink,
                         file |-> file], <<>>)
          /\ image' = [image EXCEPT ![p] = [imageUrl |-> Placeholder, public_id |-> NullRef]]
          /\ IF MissingFields(title, bookLink)
             THEN Send(p, [status |-> 400,
                           body |-> [message |-> "Please provide title and bookLink"]])
             ELSE Await(p, IF file THEN "c_upload" ELSE "c_save")
    /\ UNCHANGED <<stores, ebook, orig, uploadResult, fault, fresh, deleted>>

\* `await cloudinary.uploader.upload(dataUri, {folder: "ebook_covers"})` of
\* Create, and the assignments of imageUrl and public_id.
PostUpload(p) ==
    /\ pc[p] = "c_upload"
    /\ calls' = [calls EXCEPT ![p] = Append(@, "upload")]
    /\ \E up \in BOOLEAN :
          IF up
          THEN /\ cloud' = cloud \cup {nextRef}
               /\ nextRef' = nextRef + 1
               /\ uploadResult' = [uploadResult EXCEPT ![p] = UploadResult(nextRef)]
               /\ image' = [image EXCEPT ![p] =
                               [imageUrl |-> UploadResult(nextRef).secure_url,
                                public_id |-> UploadResult(nextRef).public_id]]
               /\ Await(p, "c_save")
               /\ UNCHANGED fault
          ELSE /\ Reject(p, "upload")
               /\ UNCHANGED <<cloud, nextRef, image, uploadResult>>
    /\ UNCHANGED <<db, nextId, req, ebook, orig, fresh, deleted>>

\* `await newEbook.save()` of Create, and the 201 response.
PostSave(p) ==
    /\ pc[p] = "c_save"
    /\ calls' = [calls EXCEPT ![p] = Append(@, "save")]
    /\ LET doc == NewEbook(nextId, req[p].title, req[p].bookLink, image[p]) IN
       /\ ebook' = [ebook EXCEPT ![p] = doc]
       /\ IF ~Validates(doc)
          THEN /\ Send(p, ServerError)
               /\ cloud' = Caught(p)
               /\ UNCHANGED <<db, nextId, fresh, fault>>
          ELSE \E up \in BOOLEAN :
                 IF up
                 THEN /\ db' = Put(doc)
                      /\ nextId' = nextId + 1
                      /\ fresh' = With(fresh, doc._id, doc)
                      /\ Send(p, [status |-> 201, body |-> doc])
                      /\ UNCHANGED <<cloud, fault>>
                 ELSE /\ Reject(p, "save")
                      /\ cloud' = Caught(p)
                      /\ UNCHANGED <<db, nextId, fresh>>
    /\ UNCHANGED <<nextRef, req, orig, image, uploadResult, deleted>>

\* ------------------------------------------------------------- PUT /api/ebooks/:id
\* The request is received; `await Ebook.findById(req.params.id)`, the 404,
\* and the assignments of title and bookLink up to the next await.
PutEbook(p, ids, texts) ==
    /\ Free(p)
    /\ \E id \in ids, title \in texts, bookLink \in texts, file \in BOOLEAN, up \in BOOLEAN :
          /\ RoomFor(FALSE, file)
          /\ Receive(p, [op |-> "put", id |-> id, title |-> title,
                         bookLink |-> bookLink, file |-> file], <<"findById">>)
          /\ fresh' = Without(fresh, id)
          /\ IF ~IsObjectId(id)
             THEN /\ Send(p, ServerError)
                  /\ UNCHANGED <<ebook, orig, fault>>
             ELSE IF ~up
             THEN /\ Reject(p, "findById")
                  /\ UNCHANGED <<ebook, orig>>
             ELSE IF FindById(id) = Null
             THEN /\ Send(p, NotFound("E-book not found"))
                  /\ UNCHANGED <<ebook, orig, fault>>
             ELSE /\ orig' = [orig EXCEPT ![p] = FindById(id)]
                  /\ ebook' = [ebook EXCEPT ![p] = UpdateFields(FindById(id), title, bookLink)]
                  /\ Await(p, AfterFind(FindById(id), file))
                  /\ UNCHANGED fault
    /\ UNCHANGED <<stores, image, uploadResult, deleted>>

\* `await cloudinary.uploader.destroy(ebook.public_id)` of Update.  The call
\* rejects only when the Image Store cannot serve it.
PutDestroy(p) ==
    /\ pc[p] = "u_destroy"
    /\ calls' = [calls EXCEPT ![p] = Append(@, "destroy")]
    /\ \E up \in BOOLEAN :
          IF up
          THEN /\ cloud' = Destroyed(ebook[p].public_id)
               /\ Await(p, "u_upload")
               /\ UNCHANGED fault
          ELSE /\ Reject(p, "destroy")
               /\ UNCHANGED cloud
    /\ UNCHANGED <<db, nextId, nextRef, req, ebook, orig, image, uploadResult, fresh, deleted>>

\* `await cloudinary.uploader.upload(dataUri, {folder: "ebook_covers"})` of
\* Update, and the assignments of imageUrl and public_id.
PutUpload(p) ==
    /\ pc[p] = "u_upload"
    /\ calls' = [calls EXCEPT ![p] = Append(@, "upload")]
    /\ \E up \in BOOLEAN :
          IF up
          THEN /\ cloud' = cloud \cup {nextRef}
               /\ nextRef' = nextRef + 1
               /\ uploadResult' = [uploadResult EXCEPT ![p] = UploadResult(nextRef)]
               /\ ebook' = [ebook EXCEPT ![p] = SetImage(@, UploadResult(nextRef))]
               /\ Await(p, "u_save")
               /\ UNCHANGED fault
          ELSE /\ Reject(p, "upload")
               /\ UNCHANGED <<cloud, nextRef, ebook, uploadResult>>
    /\ UNCHANGED <<db, nextId, req, orig, image, fresh, deleted>>

\* `await ebook.save()` of Update, and the 200 response.  save() validates the
\* document, and rejects (DocumentNotFoundError) when the document is no
\* longer in the collection.
PutSave(p) ==
    /\ pc[p] = "u_save"
    /\ calls' = [calls EXCEPT ![p] = Append(@, "save")]
    /\ IF ~Validates(ebook[p])
       THEN /\ Send(p, ServerError)
            /\ cloud' = Caught(p)
            /\ UNCHANGED <<db, fault>>
       ELSE \E up \in BOOLEAN :
              IF ~up
              THEN /\ Reject(p, "save")
                   /\ cloud' = Caught(p)
                   /\ UNCHANGED db
              ELSE IF Matched(ebook[p]) = Null
              THEN /\ Send(p, ServerError)
                   /\ cloud' = Caught(p)
                   /\ UNCHANGED <<db, fault>>
              ELSE /\ db' = Put(Saved(Matched(ebook[p]), orig[p], ebook[p]))
                   /\ Send(p, [status |-> 200, body |-> ebook[p]])
                   /\ UNCHANGED <<cloud, fault>>
    /\ UNCHANGED <<nextId, nextRef, req, ebook, orig, image, uploadResult, fresh, deleted>>

\* ------------------------------------------------------------- DELETE /api/ebooks/:id
\* The request is received; `await Ebook.findByIdAndDelete(req.params.id)`,
\* the 404, and the 200 of a record that has no image.
DeleteEbook(p, ids) ==
    /\ Free(p)
    /\ \E id \in ids, up \in BOOLEAN :
          /\ Receive(p, [op |-> "delete", id |-> id], <<"findByIdAndDelete">>)
          /\ fresh' = Without(fresh, id)
          /\ IF ~IsObjectId(id)
             THEN /\ Send(p, ServerError)
                  /\ UNCHANGED <<db, ebook, fault, deleted>>
             ELSE IF ~up
             THEN /\ Reject(p, "findByIdAndDelete")
                  /\ UNCHANGED <<db, ebook, deleted>>
             ELSE IF FindById(id) = Null
             THEN /\ db' = Remove(id)
                  /\ Send(p, NotFound("Ebook not found"))
                  /\ UNCHANGED <<ebook, fault, deleted>>
             ELSE /\ db' = Remove(id)
                  /\ ebook' = [ebook EXCEPT ![p] = FindById(id)]
                  /\ UNCHANGED fault
                  /\ IF FindById(id).public_id # NullRef
                     THEN /\ Await(p, "d_destroy")
                          /\ UNCHANGED deleted
                     ELSE /\ Send(p, DeleteConfirmed)
                          /\ deleted' = With(deleted, id, NullRef)
    /\ UNCHANGED <<cloud, nextId, nextRef, orig, image, uploadResult>>

\* `await cloudinary.uploader.destroy(ebook.public_id)` of Delete, and the 200.
DeleteDestroy(p) ==
    /\ pc[p] = "d_destroy"
    /\ calls' = [calls EXCEPT ![p] = Append(@, "destroy")]
    /\ \E up \in BOOLEAN :
          IF up
          THEN /\ cloud' = Destroyed(ebook[p].public_id)
               /\ Send(p, DeleteConfirmed)
               /\ deleted' = With(deleted, req[p].id, ebook[p].public_id)
               /\ UNCHANGED fault
          ELSE /\ Reject(p, "destroy")
               /\ UNCHANGED <<cloud, deleted>>
    /\ UNCHANGED <<db, nextId, nextRef, req, ebook, orig, image, uploadResult, fresh>>

\* ------------------------------------------------------------- end of a handler
\* The response has been sent: the handler returns and its locals are gone.
Finish(p) ==
    /\ pc[p] = "done"
    /\ pc' = [pc EXCEPT ![p] = "idle"]
    /\ req' = [req EXCEPT ![p] = NoReq]
    /\ ebook' = [ebook EXCEPT ![p] = Null]
    /\ orig' = [orig EXCEPT ![p] = Null]
    /\ image' = [image EXCEPT ![p] = Null]
    /\ uploadResult' = [uploadResult EXCEPT ![p] = Null]
    /\ res' = [res EXCEPT ![p] = NoRes]
    /\ calls' = [calls EXCEPT ![p] = <<>>]
    /\ fault' = [fault EXCEPT ![p] = "none"]
    /\ UNCHANGED <<stores, fresh, deleted, failed>>

\* ------------------------------------------------------------- specification
\* One request at a time: every request is received after the response to
\* the one before it.
Next ==
    \/ GetEbooks(1)
    \/ GetEbook(1, ReqIds)
    \/ PostEbook(1, Texts)
    \/ PostUpload(1)
    \/ PostSave(1)
    \/ PutEbook(1, ReqIds, Texts)
    \/ PutDestroy(1)
    \/ PutUpload(1)
    \/ PutSave(1)
    \/ DeleteEbook(1, ReqIds)
    \/ DeleteDestroy(1)
    \/ Finish(1)

Spec == Init /\ [][Next]_vars

\* The inputs of the interleaved requests: they address the first record,
\* a Create sends valid fields, an Update sends no title and no bookLink.
ConcIds == {1}
ConcPostTexts == {"a"}
ConcPutTexts == {Undefined}

\* Node serves the requests on one thread and interleaves them at their
\* awaits: any slot takes the next step of its handler.
NextConc ==
    \E p \in Procs :
        \/ GetEbooks(p)
        \/ GetEbook(p, ConcIds)
        \/ PostEbook(p, ConcPostTexts)
        \/ PostUpload(p)
        \/ PostSave(p)
        \/ PutEbook(p, ConcIds, ConcPutTexts)
        \/ PutDestroy(p)
        \/ PutUpload(p)
        \/ PutSave(p)
        \/ DeleteEbook(p, ConcIds)
        \/ DeleteDestroy(p)
        \/ Finish(p)

SpecConc == Init /\ [][NextConc]_vars

\* ------------------------------------------------------------- properties
Done(p) == pc[p] = "done"
\* No request is in flight.
Quiet == \A p \in Procs : pc[p] \in {"idle", "done"}
\* The handler of slot p looked its id up, no store failed, and the lookup
\* returned no document (or threw on the id).
Unresolved(p) ==
    /\ Done(p)
    /\ req[p].op \in {"get", "put", "delete"}
    /\ fault[p] = "none"
    /\ ebook[p] = Null

\* C1: whenever no request is in flight, every stored record that has a
\* public_id references a live image of the Image Store.
C1_NoDanglingImageRef ==
    Quiet => \A id \in DOMAIN db :
                db[id].public_id # NullRef => db[id].public_id \in cloud

\* C2: in every reachable state, every stored record has a public_id if and
\* only if its imageUrl is not the placeholder.
C2_ImageFieldsConsistent ==
    \A id \in DOMAIN db :
        (db[id].public_id # NullRef) <=> (db[id].imageUrl # Placeholder)

\* C2 witness: an Update with a new image succeeded and the stored record
\* carries the uploaded image.
C2_Witness ==
    \E p \in Procs :
        /\ Done(p) /\ req[p].op = "put" /\ req[p].file /\ res[p].status = 200
        /\ req[p].id \in DOMAIN db
        /\ db[req[p].id].public_id # NullRef
        /\ db[req[p].id].imageUrl # Placeholder

\* C3: a Get, Update or Delete whose id resolves to no record, whatever the
\* id, is answered 404.
C3_UnresolvedIsNotFound ==
    \A p \in Procs : Unresolved(p) => res[p].status = 404

\* C4: a Get with a malformed id is answered with a validation error (400).
C4_MalformedIdIsValidationError ==
    \A p \in Procs :
        (Done(p) /\ req[p].op = "get" /\ ~IsObjectId(req[p].id)) => res[p].status = 400

\* C5: the step that receives a Create with a missing or empty title or
\* bookLink answers 400 and ends the request, with no external call issued
\* and both stores unchanged.
C5_InvalidCreateRejected ==
    [][\A p \in Procs :
          (/\ pc[p] = "idle"
           /\ req'[p].op = "post"
           /\ ~(Truthy(req'[p].title) /\ Truthy(req'[p].bookLink)))
          => /\ pc'[p] = "done"
             /\ res'[p].status = 400
             /\ calls'[p] = <<>>
             /\ db' = db
             /\ cloud' = cloud]_vars

\* C5 witness: a Create that carried an image and no bookLink was answered 400.
C5_Witness ==
    \E p \in Procs :
        /\ Done(p) /\ req[p].op = "post" /\ req[p].file
        /\ Truthy(req[p].title) /\ req[p].bookLink = ""
        /\ res[p].status = 400

\* C6: after a successful Update with a new image of a record that had
\* public_id R, the Image Store does not hold R, holds the public_id the
\* upload returned, and the stored record has the public_id and the URL
\* the upload returned.
C6_ImageReplaced ==
    \A p \in Procs :
        (/\ Done(p) /\ req[p].op = "put" /\ req[p].file /\ res[p].status = 200
         /\ orig[p].public_id # NullRef)
        => /\ orig[p].public_id \notin cloud
           /\ uploadResult[p].public_id \in cloud
           /\ uploadResult[p].public_id # orig[p].public_id
           /\ req[p].id \in DOMAIN db
           /\ db[req[p].id].public_id = uploadResult[p].public_id
           /\ db[req[p].id].imageUrl = uploadResult[p].secure_url

\* C6 witness: an Update with a new image of a record that had an image succeeded.
C6_Witness ==
    \E p \in Procs :
        /\ Done(p) /\ req[p].op = "put" /\ req[p].file /\ res[p].status = 200
        /\ orig[p].public_id # NullRef

\* C7: once a Delete was confirmed, the record is not in the Record Store,
\* the image it had is not in the Image Store, and every Get of its id that
\* the store serves is answered 404.
C7_DeletedStaysGone ==
    /\ \A id \in DOMAIN deleted :
          /\ id \notin DOMAIN db
          /\ deleted[id] # NullRef => deleted[id] \notin cloud
    /\ \A p \in Procs :
          (/\ Done(p) /\ req[p].op = "get" /\ fault[p] = "none"
           /\ req[p].id \in DOMAIN deleted)
          => res[p].status = 404

\* C7 witness: a Get of the id of a deleted record that had an image was
\* answered 404.
C7_Witness ==
    \E p \in Procs :
        /\ Done(p) /\ req[p].op = "get"
        /\ req[p].id \in DOMAIN deleted
        /\ deleted[req[p].id] # NullRef
        /\ res[p].status = 404

\* C8: a Create with non-empty title and bookLink and no image issues no
\* Image Store call, and, when the Record Store serves the save, answers 201
\* with the stored record, whose title and bookLink are those supplied, whose
\* imageUrl is the placeholder and whose public_id is null.
C8_CreateWithoutImage ==
    \A p \in Procs :
        (/\ req[p].op = "post" /\ ~req[p].file
         /\ Truthy(req[p].title) /\ Truthy(req[p].bookLink))
        => /\ \A i \in DOMAIN calls[p] : calls[p][i] \notin {"upload", "destroy"}
           /\ (Done(p) /\ fault[p] = "none")
              => /\ res[p].status = 201
                 /\ res[p].body.title = req[p].title
                 /\ res[p].body.bookLink = req[p].bookLink
                 /\ res[p].body.imageUrl = Placeholder
                 /\ res[p].body.public_id = NullRef
                 /\ res[p].body._id \in DOMAIN db
                 /\ db[res[p].body._id] = res[p].body

\* C8 witness: a Create without image was answered 201.
C8_Witness ==
    \E p \in Procs :
        /\ Done(p) /\ req[p].op = "post" /\ ~req[p].file
        /\ res[p].status = 201
        /\ res[p].body.imageUrl = Placeholder

\* C9: a Get of the id of a created record, served by the store before any
\* Update or Delete of that id was received, is answered 200 with the record
\* Create returned.
C9_GetReturnsCreated ==
    \A p \in Procs :
        (/\ Done(p) /\ req[p].op = "get" /\ fault[p] = "none"
         /\ req[p].id \in DOMAIN fresh)
        => /\ res[p].status = 200
           /\ res[p].body = fresh[req[p].id]

\* C9 witness: a record created with an image was returned by Get.
C9_Witness ==
    \E p \in Procs :
        /\ Done(p) /\ req[p].op = "get"
        /\ req[p].id \in DOMAIN fresh
        /\ res[p].status = 200
        /\ res[p].body.public_id # NullRef

\* C10: after a successful Update, the stored title is the supplied one when
\* it was supplied and non-empty, and the one before the Update otherwise;
\* and the same, independently, for bookLink.
C10_PartialUpdate ==
    \A p \in Procs :
        (Done(p) /\ req[p].op = "put" /\ res[p].status = 200)
        => /\ req[p].id \in DOMAIN db
           /\ db[req[p].id].title =
                 IF req[p].title \notin {Undefined, ""} THEN req[p].title ELSE orig[p].title
           /\ db[req[p].id].bookLink =
                 IF req[p].bookLink \notin {Undefined, ""} THEN req[p].bookLink
                 ELSE orig[p].bookLink

\* C10 witness: an Update that supplied a new title and an empty bookLink
\* succeeded.
C10_Witness ==
    \E p \in Procs :
        /\ Done(p) /\ req[p].op = "put" /\ res[p].status = 200
        /\ Truthy(req[p].title) /\ req[p].title # orig[p].title
        /\ req[p].bookLink = ""

\* C11: no step of an Update without image changes the Image Store or issues
\* an Image Store call; when the Update is answered 200 the stored and the
\* returned record have the imageUrl and public_id the record had, and when
\* it supplied neither title nor bookLink the returned record is the record
\* as it was read and the Record Store is unchanged.
C11_UpdateWithoutImage ==
    [][\A p \in Procs :
          (req'[p].op = "put" /\ ~req'[p].file /\ pc'[p] # pc[p])
          => /\ cloud' = cloud
             /\ \A i \in DOMAIN calls'[p] : calls'[p][i] \notin {"upload", "destroy"}
             /\ (pc'[p] = "done" /\ res'[p].status = 200)
                => /\ db'[req'[p].id].imageUrl = orig'[p].imageUrl
                   /\ db'[req'[p].id].public_id = orig'[p].public_id
                   /\ res'[p].body.imageUrl = orig'[p].imageUrl
                   /\ res'[p].body.public_id = orig'[p].public_id
                   /\ (req'[p].title = Undefined /\ req'[p].bookLink = Undefined)
                      => (res'[p].body = orig'[p] /\ db' = db)]_vars

\* C11 witness: an Update that supplied nothing, of a record that has an
\* image, was answered 200.
C11_Witness ==
    \E p \in Procs :
        /\ Done(p) /\ req[p].op = "put" /\ ~req[p].file
        /\ req[p].title = Undefined /\ req[p].bookLink = Undefined
        /\ res[p].status = 200
        /\ orig[p].public_id # NullRef

\* C12: in every reachable state every stored record has a title and a
\* bookLink that are present and not the empty string.
C12_RequiredFieldsNonEmpty ==
    \A id \in DOMAIN db :
        /\ db[id].title \notin {Undefined, ""}
        /\ db[id].bookLink \notin {Undefined, ""}

\* C12 witness: an Update that supplied an empty title and an empty bookLink
\* was answered 200.
C12_Witness ==
    \E p \in Procs :
        /\ Done(p) /\ req[p].op = "put" /\ res[p].status = 200
        /\ req[p].title = "" /\ req[p].bookLink = ""
        /\ req[p].id \in DOMAIN db

\* C13: whenever no request is in flight and no request was answered with a
\* failure, every image of the Image Store is the public_id of exactly one
\* stored record, also when requests on the same id were interleaved.
C13_NoOrphanedImage ==
    (Quiet /\ ~failed)
    => \A ref \in cloud :
          Cardinality({id \in DOMAIN db : db[id].public_id = ref}) = 1

\* Slots p and q run Updates with new images on the same record, both read
\* it with the same public_id, and no external call of either failed.
BothReadSameImage(p, q) ==
    /\ p # q
    /\ req[p].op = "put" /\ req[q].op = "put"
    /\ req[p].file /\ req[q].file
    /\ req[p].id = req[q].id
    /\ orig[p] # Null /\ orig[q] # Null
    /\ orig[p].public_id # NullRef
    /\ orig[p].public_id = orig[q].public_id
    /\ fault[p] = "none" /\ fault[q] = "none"

\* C14: when two interleaved Updates with new images both read the record
\* with the same public_id, each one that ended was answered 200 after
\* findById, destroy of the old image, upload and save (the destroy that
\* finds the image already gone does not fail it), and each save stores the
\* image fields of its own upload, so the record holds those of the last save.
C14_ConcurrentImageUpdates ==
    [][\A p \in Procs, q \in Procs :
          BothReadSameImage(p, q)'
          => /\ pc'[p] = "done"
                => /\ res'[p].status = 200
                   /\ calls'[p] = <<"findById", "destroy", "upload", "save">>
             /\ (pc[p] = "u_save" /\ pc'[p] = "done")
                => /\ db'[req'[p].id].imageUrl = uploadResult'[p].secure_url
                   /\ db'[req'[p].id].public_id = uploadResult'[p].public_id]_vars

\* C14 witness: both Updates read the same public_id, both were answered 200,
\* each issued a destroy, and the record holds the image of one of them while
\* the image of the other is still stored.
C14_Witness ==
    \E p \in Procs, q \in Procs :
        /\ BothReadSameImage(p, q)
        /\ Done(p) /\ Done(q)
        /\ res[p].status = 200 /\ res[q].status = 200
        /\ calls[p][2] = "destroy" /\ calls[q][2] = "destroy"
        /\ orig[p].public_id \notin cloud
        /\ db[req[p].id].public_id = uploadResult[p].public_id
        /\ uploadResult[q].public_id \in cloud

\* C15: in every step, an id whose Delete was confirmed is not in the Record
\* Store, a Get of it received after the confirmation is not answered with a
\* record, and a List received after the confirmation returns no record of
\* that id; an Update that read the record before the Delete and saves
\* after it does not bring the record back.
C15_DeleteIsFinal ==
    [][/\ \A id \in DOMAIN deleted' : id \notin DOMAIN db'
       /\ \A p \in Procs :
             (pc[p] = "idle" /\ pc'[p] = "done")
             => /\ (req'[p].op = "get" /\ req'[p].id \in DOMAIN deleted)
                   => res'[p].status # 200
                /\ (req'[p].op = "list" /\ res'[p].status = 200)
                   => \A e \in res'[p].body.ebooks : e._id \notin DOMAIN deleted]_vars

\* C15 witness: an Update read the record, a Delete of the same id was
\* confirmed, the Update then ran its save, and a Get of the id was
\* answered 404.
C15_Witness ==
    \E p \in Procs, q \in Procs :
        /\ Done(p) /\ req[p].op = "put" /\ orig[p] # Null
        /\ req[p].id \in DOMAIN deleted
        /\ calls[p][Len(calls[p])] = "save"
        /\ Done(q) /\ req[q].op = "get" /\ req[q].id = req[p].id
        /\ res[q].status = 404

\* The external calls of an Update that replaces an image, in order.
ReplaceOrder == <<"findById", "destroy", "upload", "save">>

\* C16: an Update with a new image on a record that has a public_id has made,
\* at each of its awaits, exactly the calls that precede that await in the
\* order findById, destroy, upload, save: it waits for the upload only after
\* the destroy returned, and for the save only after the upload returned.
C16_UpdateCallOrder ==
    \A p \in Procs :
        (/\ req[p].op = "put" /\ req[p].file
         /\ orig[p] # Null /\ orig[p].public_id # NullRef)
        => /\ calls[p] = SubSeq(ReplaceOrder, 1, Len(calls[p]))
           /\ pc[p] = "u_destroy" => Len(calls[p]) = 1
           /\ pc[p] = "u_upload" => Len(calls[p]) = 2
           /\ pc[p] = "u_save" => Len(calls[p]) = 3
           /\ (Done(p) /\ fault[p] = "none") => Len(calls[p]) = 4
           /\ pc[p] \in {"u_destroy", "u_upload", "u_save", "done"}

\* C16 witness: an Update replaced the image of a record and was answered 200
\* after the four calls.
C16_Witness ==
    \E p \in Procs :
        /\ Done(p) /\ req[p].op = "put" /\ req[p].file
        /\ orig[p] # Null /\ orig[p].public_id # NullRef
        /\ res[p].status = 200
        /\ calls[p] = ReplaceOrder

\* C17: in every step of a Create or Update, when an external call rejects
\* the request is answered 500 at once, the rejected call is the last call
\* of the request and was made once, and the Record Store is unchanged; the
\* Record Store changes only in the step that answers 200 or 201, so a
\* failed request leaves it as it was when the request was received; and a
\* request that was answered makes no further call.
C17_FailureSurfacesAtOnce ==
    [][\A p \in Procs :
          /\ (req'[p].op \in {"post", "put"} /\ fault'[p] # fault[p] /\ fault'[p] # "none")
             => /\ pc'[p] = "done"
                /\ res'[p] = ServerError
                /\ db' = db
                /\ calls'[p] = Append(calls[p], fault'[p])
                /\ \A i \in DOMAIN calls[p] : calls[p][i] # fault'[p]
          /\ (req'[p].op \in {"post", "put"} /\ pc'[p] # pc[p] /\ db' # db)
             => /\ pc'[p] = "done"
                /\ fault'[p] = "none"
                /\ res'[p].status \in {200, 201}
          /\ (pc[p] = "done" /\ pc'[p] # "idle") => (pc'[p] = "done" /\ calls'[p] = calls[p])]_vars

\* C17 witness: an Update destroyed the old image, its upload rejected, and
\* it was answered 500 with the stored record as the Update read it.
C17_Witness ==
    \E p \in Procs :
        /\ Done(p) /\ req[p].op = "put" /\ req[p].title = "b"
        /\ fault[p] = "upload"
        /\ calls[p] = <<"findById", "destroy", "upload">>
        /\ res[p] = ServerError
        /\ db[req[p].id] = orig[p]

\* C18: when a Create or Update uploaded an image and its save() then
\* rejected, the request is answered 500, the uploaded image is still in
\* the Image Store, and no stored record references it.
C18_UploadNotRolledBack ==
    \A p \in Procs :
        (/\ Done(p) /\ req[p].op \in {"post", "put"}
         /\ fault[p] = "save" /\ uploadResult[p] # Null)
        => /\ res[p] = ServerError
           /\ uploadResult[p].public_id \in cloud
           /\ \A id \in DOMAIN db : db[id].public_id # uploadResult[p].public_id

\* C18 witness: a Create uploaded its image, the save rejected, and the
\* image is in the Image Store.
C18_Witness ==
    \E p \in Procs :
        /\ Done(p) /\ req[p].op = "post"
        /\ fault[p] = "save" /\ uploadResult[p] # Null
        /\ calls[p] = <<"upload", "save">>
        /\ uploadResult[p].public_id \in cloud

\* C19: a Delete of a record that has a public_id waits for the destroy with
\* the record already out of the Record Store and findByIdAndDelete as its
\* only call; when the destroy rejects, the record is still out of the Record
\* Store, the destroy was called once, and the answer is the 500 of the
\* catch block, not the confirmation.
C19_DeleteRecordFirst ==
    \A p \in Procs :
        req[p].op = "delete"
        => /\ pc[p] = "d_destroy"
              => /\ req[p].id \notin DOMAIN db
                 /\ ebook[p].public_id # NullRef
                 /\ calls[p] = <<"findByIdAndDelete">>
           /\ (Done(p) /\ fault[p] = "destroy")
              => /\ req[p].id \notin DOMAIN db
                 /\ calls[p] = <<"findByIdAndDelete", "destroy">>
                 /\ res[p] = ServerError
                 /\ res[p] # DeleteConfirmed

\* C19 witness: the destroy of a Delete rejected; the image is still in the
\* Image Store and the record is gone.
C19_Witness ==
    \E p \in Procs :
        /\ Done(p) /\ req[p].op = "delete" /\ fault[p] = "destroy"
        /\ ebook[p].public_id \in cloud
        /\ req[p].id \notin DOMAIN db
        /\ res[p].status = 500

\* C20: the step in which an Update or Delete is answered 404 changes
\* neither the Record Store nor the Image Store, and the lookup is the only
\* call of the request, also when the Update carries an image.
C20_NotFoundHasNoEffect ==
    [][\A p \in Procs :
          (/\ pc'[p] = "done" /\ pc'[p] # pc[p]
           /\ req'[p].op \in {"put", "delete"}
           /\ res'[p].status = 404)
          => /\ pc[p] = "idle"
             /\ db' = db
             /\ cloud' = cloud
             /\ calls'[p] \in {<<"findById">>, <<"findByIdAndDelete">>}]_vars

\* C20 witness: an Update with an image of the id of a deleted record was
\* answered 404.
C20_Witness ==
    \E p \in Procs :
        /\ Done(p) /\ req[p].op = "put" /\ req[p].file
        /\ req[p].id \in DOMAIN deleted
        /\ res[p].status = 404
        /\ calls[p] = <<"findById">>


====
